---- MODULE Spec2Model ----
(***************************************************************************)
(* A model of practicum/evaluate.py, the evaluation driver of route-detect. *)
(*                                                                         *)
(* One behaviour is one invocation of main(): either --analyze (clone each *)
(* harness repository, run the external tools, write one Analysis Record   *)
(* per entry) or --process (map process_output over the Analysis Records   *)
(* with a worker pool, sort, and write CSV to standard output).            *)
(*                                                                         *)
(* Python strings that the program searches, slices, splits or orders are  *)
(* modelled as sequences of one-character strings; strings that are only   *)
(* compared for equality (JSON keys, metavariable names, role literals,    *)
(* exception names) are TLA+ strings.                                      *)
(***************************************************************************)
EXTENDS Integers, Sequences, FiniteSets, TLC

(***************************************************************************)
(* Python str primitives                                                   *)
(***************************************************************************)

\* The printable ASCII characters in code-point order (32 .. 126); the grave
\* accent (96), which a TLA+ string cannot hold, keeps its place under a name.
Ascii ==
  <<" ","!","\"","#","$","%","&","'","(",")","*","+",",","-",".","/",
    "0","1","2","3","4","5","6","7","8","9",":",";","<","=",">","?","@",
    "A","B","C","D","E","F","G","H","I","J","K","L","M","N","O","P","Q",
    "R","S","T","U","V","W","X","Y","Z","[","\\","]","^","_","(grave)",
    "a","b","c","d","e","f","g","h","i","j","k","l","m","n","o","p","q",
    "r","s","t","u","v","w","x","y","z","{","|","}","~">>

\* ord(c) for a printable ASCII character.
Ord ==
  [c \in {Ascii[i] : i \in 1..Len(Ascii)} |->
     31 + (CHOOSE i \in 1..Len(Ascii) : Ascii[i] = c)]

\* a < b on str: code-point lexicographic, a proper prefix is smaller.
StrLess(a, b) ==
  \E k \in 1..Len(b) :
     /\ k <= Len(a) + 1
     /\ SubSeq(a, 1, k - 1) = SubSeq(b, 1, k - 1)
     /\ (k = Len(a) + 1 \/ Ord[a[k]] < Ord[b[k]])

\* needle in hay, on str.
Contains(needle, hay) ==
  \E i \in 0..(Len(hay) - Len(needle)) :
     SubSeq(hay, i + 1, i + Len(needle)) = needle

\* The first index at which sub occurs in s, or 0 (str.find, 1-based).
IndexOf(sub, s) ==
  IF Contains(sub, s)
    THEN CHOOSE i \in 1..Len(s) :
           /\ SubSeq(s, i, i + Len(sub) - 1) = sub
           /\ \A j \in 1..(i - 1) : SubSeq(s, j, j + Len(sub) - 1) # sub
    ELSE 0

\* s.split(c) for a one-character separator c.
RECURSIVE Split(_, _)
Split(s, c) ==
  LET k == IndexOf(<<c>>, s)
  IN  IF k = 0 THEN <<s>>
      ELSE <<SubSeq(s, 1, k - 1)>> \o Split(SubSeq(s, k + 1, Len(s)), c)

\* sep.join(parts)
RECURSIVE Join(_, _)
Join(sep, parts) ==
  IF Len(parts) = 0 THEN <<>>
  ELSE IF Len(parts) = 1 THEN parts[1]
  ELSE parts[1] \o sep \o Join(sep, Tail(parts))

\* s.strip(): leading and trailing whitespace removed.
RECURSIVE Strip(_)
Strip(s) ==
  IF Len(s) = 0 THEN s
  ELSE IF s[1] \in {" ", "\n", "\t"} THEN Strip(Tail(s))
  ELSE IF s[Len(s)] \in {" ", "\n", "\t"} THEN Strip(SubSeq(s, 1, Len(s) - 1))
  ELSE s

Digits == <<"0","1","2","3","4","5","6","7","8","9">>

\* str(n) for an int n >= 0.
RECURSIVE Str(_)
Str(n) ==
  IF n < 10 THEN <<Digits[n + 1]>>
  ELSE Str(n \div 10) \o <<Digits[(n % 10) + 1]>>

\* str(x) for a float x >= 0 with at most two decimals, given in hundredths:
\* the shortest repr, which always keeps one digit after the point.
StrFloat(h) ==
  Str(h \div 100) \o <<".">> \o
    (IF h % 10 = 0 THEN <<Digits[((h % 100) \div 10) + 1]>>
     ELSE <<Digits[((h % 100) \div 10) + 1], Digits[(h % 10) + 1]>>)

\* urlparse(url).path: what follows the network location, up to "?" or "#".
UrlPath(url) ==
  LET k    == IndexOf(<<":","/","/">>, url)
      rest == IF k = 0 THEN url ELSE SubSeq(url, k + 3, Len(url))
      p    == IF k = 0 THEN 1 ELSE IndexOf(<<"/">>, rest)
      tail == IF p = 0 THEN <<>> ELSE SubSeq(rest, p, Len(rest))
      q    == IndexOf(<<"?">>, tail)
      t2   == IF q = 0 THEN tail ELSE SubSeq(tail, 1, q - 1)
      f    == IndexOf(<<"#">>, t2)
  IN  IF f = 0 THEN t2 ELSE SubSeq(t2, 1, f - 1)

(***************************************************************************)
(* Module constants                                                        *)
(***************************************************************************)

ROLE_METAVARIABLES == <<"$AUTHZ", "$...AUTHZ">>
JS_TS_LANGUAGE == <<"J","a","v","a","S","c","r","i","p","t","/","T","y","p","e","S","c","r","i","p","t">>
SHORT_HASH_LEN == 7

Python == <<"P","y","t","h","o","n">>
Java == <<"J","a","v","a">>
Go == <<"G","o">>
JavaScript == <<"J","a","v","a","S","c","r","i","p","t">>
TypeScript == <<"T","y","p","e","S","c","r","i","p","t">>

\* An abridgement of the HARNESS registry, flattened in the order main()
\* iterates it (language, then framework, then repository).
HARNESS ==
  << <<Python, <<"d","j","a","n","g","o">>, <<"h","t","t","p","s",":","/","/","g","i","t","h","u","b",".","c","o","m","/","s","a","l","e","o","r","/","s","a","l","e","o","r">>>>,
     <<Python, <<"d","j","a","n","g","o">>, <<"h","t","t","p","s",":","/","/","g","i","t","h","u","b",".","c","o","m","/","w","a","g","t","a","i","l","/","w","a","g","t","a","i","l">>>>,
     <<Java, <<"s","p","r","i","n","g">>, <<"h","t","t","p","s",":","/","/","g","i","t","h","u","b",".","c","o","m","/","m","a","c","r","o","z","h","e","n","g","/","m","a","l","l">>>>,
     <<Go, <<"g","i","n">>, <<"h","t","t","p","s",":","/","/","g","i","t","h","u","b",".","c","o","m","/","g","o","t","i","f","y","/","s","e","r","v","e","r">>>>,
     <<Go, <<"c","h","i">>, <<"h","t","t","p","s",":","/","/","g","i","t","h","u","b",".","c","o","m","/","d","h","a","x","/","g","o","-","b","a","s","e">>>>,
     <<JS_TS_LANGUAGE, <<"e","x","p","r","e","s","s">>, <<"h","t","t","p","s",":","/","/","g","i","t","h","u","b",".","c","o","m","/","d","i","r","e","c","t","u","s","/","d","i","r","e","c","t","u","s">>>> >>

(***************************************************************************)
(* get_org_repo and process_output                                         *)
(***************************************************************************)

Has(d, k) == k \in DOMAIN d

\* The result of a call: exc is "none" and val the value, or exc names the
\* exception it raised.
Returned(v) == [exc |-> "none", val |-> v]
Raised(e) == [exc |-> e, val |-> <<>>]

\* _, org, repo = urlparse(url).path.split("/")
get_org_repo(url) ==
  LET parts == Split(UrlPath(url), "/")
  IN  IF Len(parts) # 3 THEN Raised("ValueError")
      ELSE Returned(<<parts[2], parts[3]>>)

RECURSIVE SumSeq(_)
SumSeq(s) == IF Len(s) = 0 THEN 0 ELSE s[1] + SumSeq(Tail(s))

Languages(data) ==
  IF data.language = JS_TS_LANGUAGE THEN <<JavaScript, TypeScript>>
  ELSE <<data.language>>

TokeiKeys == <<"blanks", "code", "comments">>

\* sum(data["tokei"][language][key] for language ... for key ...)
LanguageLoc(data) ==
  LET ls == Languages(data)
  IN  SumSeq([n \in 1..(Len(ls) * 3) |->
                data.tokei[ls[((n - 1) \div 3) + 1]][TokeiKeys[((n - 1) % 3) + 1]]])

\* Mutant of MarkerCount: the marker must end the identifier.
MarkerCountSuffix(marker, results) ==
  SumSeq([i \in 1..Len(results) |->
            IF Len(marker) <= Len(results[i].check_id)
               /\ SubSeq(results[i].check_id,
                         Len(results[i].check_id) - Len(marker) + 1,
                         Len(results[i].check_id)) = marker
              THEN 1 ELSE 0])

\* sum(int(marker in result["check_id"]) for result in results)
MarkerCount(marker, results) ==
  SumSeq([i \in 1..Len(results) |->
            IF Contains(marker, results[i].check_id) THEN 1 ELSE 0])

\* The set comprehension of role_count, built the way it is evaluated: one
\* result after the other, one metavariable after the other, each bound
\* abstract_content added to the set.
RECURSIVE RoleSet(_, _, _)
RoleSet(results, i, acc) ==
  IF i > Len(results) THEN acc
  ELSE LET mv == results[i].extra.metavars
           a1 == IF Has(mv, ROLE_METAVARIABLES[1])
                   THEN acc \cup {mv[ROLE_METAVARIABLES[1]].abstract_content}
                   ELSE acc
           a2 == IF Has(mv, ROLE_METAVARIABLES[2])
                   THEN a1 \cup {mv[ROLE_METAVARIABLES[2]].abstract_content}
                   ELSE a1
       IN  RoleSet(results, i + 1, a2)

\* Mutant of RoleCount: a list comprehension, every binding counted.
RoleCountBindings(results) ==
  SumSeq([i \in 1..Len(results) |->
            Cardinality({ m \in 1..Len(ROLE_METAVARIABLES) :
                            Has(results[i].extra.metavars, ROLE_METAVARIABLES[m]) })])

\* len({...})
RoleCount(results) == Cardinality(RoleSet(results, 1, {}))

\* A subscript of process_output finds no such key.
TokeiMissing(data) ==
  \/ ~Has(data, "language")
  \/ ~Has(data, "tokei")
  \/ \E i \in 1..Len(Languages(data)) :
        \/ ~Has(data.tokei, Languages(data)[i])
        \/ \E k \in 1..3 : ~Has(data.tokei[Languages(data)[i]], TokeiKeys[k])

CheckIdMissing(data) ==
  \/ ~Has(data, "semgrep")
  \/ ~Has(data.semgrep, "results")
  \/ \E i \in 1..Len(data.semgrep.results) :
        ~Has(data.semgrep.results[i], "check_id")

MetavarsMissing(data) ==
  \E i \in 1..Len(data.semgrep.results) :
     LET r == data.semgrep.results[i]
     IN  \/ ~Has(r, "extra")
         \/ ~Has(r.extra, "metavars")
         \/ \E m \in 1..Len(ROLE_METAVARIABLES) :
               /\ Has(r.extra.metavars, ROLE_METAVARIABLES[m])
               /\ ~Has(r.extra.metavars[ROLE_METAVARIABLES[m]], "abstract_content")

RowFieldMissing(data) ==
  ~Has(data, "hash") \/ ~Has(data, "framework") \/ ~Has(data, "runtime")

\* The list process_output returns, lines 180-196.
MetricsRow(data) ==
  LET results == data.semgrep.results
  IN  << Join(<<"/">>, get_org_repo(data.repository).val),
         SubSeq(data.hash, 1, IF Len(data.hash) < SHORT_HASH_LEN
                                THEN Len(data.hash) ELSE SHORT_HASH_LEN),
         data.framework,
         data.language,
         Str(LanguageLoc(data)),
         StrFloat(data.runtime),
         Str(MarkerCount(<<"-","r","o","u","t","e">>, results)),
         Str(MarkerCount(<<"-","a","u","t","h","e","n","t","i","c","a","t","e","d">>, results)),
         Str(MarkerCount(<<"-","u","n","a","u","t","h","e","n","t","i","c","a","t","e","d">>, results)),
         Str(MarkerCount(<<"-","a","u","t","h","o","r","i","z","e","d">>, results)),
         Str(MarkerCount(<<"-","u","n","a","u","t","h","o","r","i","z","e","d">>, results)),
         Str(RoleCount(results)) >>

\* Mutant of process_output: data.get(key, default) for the fields of the row.
process_output_defaulting(data) ==
  LET d == data @@ [hash |-> <<>>, framework |-> <<>>, runtime |-> 0]
  IN  IF TokeiMissing(d) \/ CheckIdMissing(d) THEN Raised("KeyError")
      ELSE IF MetavarsMissing(d) \/ ~Has(d, "repository") THEN Raised("KeyError")
      ELSE IF get_org_repo(d.repository).exc # "none"
        THEN Raised(get_org_repo(d.repository).exc)
      ELSE Returned(MetricsRow(d))

\* process_output(filepath), on the parsed JSON of the file: the Metrics Row,
\* or the exception the first failing subscript raises.
process_output(data) ==
  IF TokeiMissing(data) THEN Raised("KeyError")
  ELSE IF CheckIdMissing(data) THEN Raised("KeyError")
  ELSE IF MetavarsMissing(data) THEN Raised("KeyError")
  ELSE IF ~Has(data, "repository") THEN Raised("KeyError")
  ELSE IF get_org_repo(data.repository).exc # "none"
    THEN Raised(get_org_repo(data.repository).exc)
  ELSE IF RowFieldMissing(data) THEN Raised("KeyError")
  ELSE Returned(MetricsRow(data))

(***************************************************************************)
(* run_cmd and the external tools                                          *)
(***************************************************************************)

EX_OK == 0

\* What subprocess.run gives for one invocation: the executable is missing,
\* or the process ran and left a return code and its captured stdout.
Procs(out) ==
  { [found |-> FALSE, returncode |-> 0, stdout |-> <<>>],
    [found |-> TRUE, returncode |-> 1, stdout |-> <<>>],
    [found |-> TRUE, returncode |-> EX_OK, stdout |-> out] }

\* Mutant of run_cmd: the return code is not looked at.
run_cmd_ignoring_returncode(proc) ==
  IF ~proc.found THEN Raised("SystemExit") ELSE Returned(proc.stdout)

\* run_cmd(*args, cwd): the captured stdout, or sys.exit(1).
run_cmd(proc) ==
  IF ~proc.found THEN Raised("SystemExit")
  ELSE IF proc.returncode # EX_OK THEN Raised("SystemExit")
  ELSE Returned(proc.stdout)

\* The line counter's JSON for a checkout, as json.loads returns it.
TokeiJson(language) ==
  IF language = JS_TS_LANGUAGE
    THEN (JavaScript :> [blanks |-> 3, code |-> 40, comments |-> 2])
         @@ (TypeScript :> [blanks |-> 5, code |-> 60, comments |-> 1])
    ELSE (language :> [blanks |-> 10, code |-> 100, comments |-> 5])

\* One finding of the scanner's JSON.
Finding(id, metavars) == [check_id |-> id, extra |-> [metavars |-> metavars]]
Bound(literal) == [abstract_content |-> literal]
NoMetavars == <<>>

\* The scanner's JSON for a checkout, as json.loads returns it.
SemgrepJson(framework) ==
  [results |-> << Finding(framework \o <<"-","r","o","u","t","e">>, NoMetavars),
                  Finding(framework \o <<"-","a","u","t","h","e","n","t","i","c","a","t","e","d","-","r","o","u","t","e">>,
                          ("$AUTHZ" :> Bound("admin"))) >>]

RevParseStdout == <<"9","f","c","e","b","0","2","d","0","a","e","5","9","8","e","9","5","d","c","9","7","0","b","7","4","7","6","7","f","1","9","3","7","2","d","6","1","a","f","8">> \o <<"\n">>

(***************************************************************************)
(* The output directory                                                    *)
(***************************************************************************)

AnalysisRecord(language, framework, repository, hash, tokei, semgrep, runtime) ==
  [language |-> language, framework |-> framework, repository |-> repository,
   hash |-> hash, tokei |-> tokei, semgrep |-> semgrep, runtime |-> runtime]

Without(f, k) == [x \in DOMAIN f \ {k} |-> f[x]]

\* Files an output directory may hold when main() starts: Analysis Records of
\* earlier runs (one of them truncated of its hash), and a file that is no
\* JSON file.
Catalog ==
  (<<"s","a","l","e","o","r",".","d","j","a","n","g","o",".","j","s","o","n">> :>
     AnalysisRecord(Python, <<"d","j","a","n","g","o">>, <<"h","t","t","p","s",":","/","/","g","i","t","h","u","b",".","c","o","m","/","s","a","l","e","o","r","/","s","a","l","e","o","r">>,
                    <<"3","f","2","a","9","c","1","d","0","b","7","e">>, TokeiJson(Python),
                    [results |-> << Finding(<<"d","j","a","n","g","o","-","r","o","u","t","e">>, NoMetavars),
                                    Finding(<<"d","j","a","n","g","o","-","a","u","t","h","o","r","i","z","e","d","-","r","o","u","t","e">>,
                                            ("$...AUTHZ" :> Bound("staff"))) >>],
                    1234))
  @@ (<<"w","a","g","t","a","i","l",".","d","j","a","n","g","o",".","j","s","o","n">> :>
     AnalysisRecord(Python, <<"d","j","a","n","g","o">>, <<"h","t","t","p","s",":","/","/","g","i","t","h","u","b",".","c","o","m","/","w","a","g","t","a","i","l","/","w","a","g","t","a","i","l">>,
                    <<"a","1","b","2","c","3">>, TokeiJson(Python), [results |-> <<>>], 250))
  @@ (<<"m","a","l","l",".","s","p","r","i","n","g",".","j","s","o","n">> :>
     AnalysisRecord(Java, <<"s","p","r","i","n","g">>, <<"h","t","t","p","s",":","/","/","g","i","t","h","u","b",".","c","o","m","/","m","a","c","r","o","z","h","e","n","g","/","m","a","l","l">>,
                    <<"0","c","4","d","5","e","6","f","7","a","8","b">>, TokeiJson(Java),
                    [results |-> << Finding(<<"s","p","r","i","n","g","-","u","n","a","u","t","h","e","n","t","i","c","a","t","e","d","-","r","o","u","t","e">>, NoMetavars) >>],
                    900))
  @@ (<<"d","i","r","e","c","t","u","s",".","e","x","p","r","e","s","s",".","j","s","o","n">> :>
     AnalysisRecord(JS_TS_LANGUAGE, <<"e","x","p","r","e","s","s">>, <<"h","t","t","p","s",":","/","/","g","i","t","h","u","b",".","c","o","m","/","d","i","r","e","c","t","u","s","/","d","i","r","e","c","t","u","s">>,
                    <<"7","7","a","a","8","8","b","b","9","9","c","c">>, TokeiJson(JS_TS_LANGUAGE),
                    [results |-> << Finding(<<"e","x","p","r","e","s","s","-","r","o","u","t","e">>, NoMetavars) >>], 5))
  @@ (<<"g","o","-","b","a","s","e",".","c","h","i",".","j","s","o","n">> :>
     AnalysisRecord(Go, <<"c","h","i">>, <<"h","t","t","p","s",":","/","/","g","i","t","h","u","b",".","c","o","m","/","d","h","a","x","/","g","o","-","b","a","s","e">>,
                    <<"d","e","a","d","b","e","e","f","0","0","1","1">>, TokeiJson(Go), [results |-> <<>>], 10))
  @@ (<<"k","o","e","l",".","l","a","r","a","v","e","l",".","j","s","o","n">> :>
     Without(AnalysisRecord(<<"P","H","P">>, <<"l","a","r","a","v","e","l">>, <<"h","t","t","p","s",":","/","/","g","i","t","h","u","b",".","c","o","m","/","k","o","e","l","/","k","o","e","l">>,
                            <<>>, TokeiJson(<<"P","H","P">>), [results |-> <<>>], 300),
             "hash"))
  @@ (<<"n","o","t","e","s",".","t","x","t">> :> [text |-> "notes"])

MaxFiles == 3

\* The values of --repos the model runs with; the empty list stands for the
\* option not given.
ArgRepos == { <<>>, << <<"s","a","l","e","o","r">> >>, << <<"g","o">>, <<"m","a","l","l">> >> }

EndsWith(s, suffix) ==
  /\ Len(suffix) <= Len(s)
  /\ SubSeq(s, Len(s) - Len(suffix) + 1, Len(s)) = suffix

\* The sequences that enumerate the set S, each element once.
Enumerations(S) ==
  { e \in [1..Cardinality(S) -> S] :
      \A i, j \in 1..Cardinality(S) : i # j => e[i] # e[j] }

\* any(repo in text for repo in repos), on str.
AnyIn(repos, text) == \E i \in 1..Len(repos) : Contains(repos[i], text)

RECURSIVE SelectEntries(_, _)
SelectEntries(entries, repos) ==
  IF Len(entries) = 0 THEN <<>>
  ELSE (IF Len(repos) = 0 \/ AnyIn(repos, entries[1][3])
          THEN <<entries[1]>> ELSE <<>>)
       \o SelectEntries(Tail(entries), repos)

(***************************************************************************)
(* State                                                                   *)
(***************************************************************************)

VARIABLES
  mode,       \* "analyze" or "process": the action flag given
  repos,      \* args.repos
  pc,         \* where main() stands
  exitcode,   \* the process's exit code, once pc = "exited"
  fault,      \* "none", or what ended the run early
  dirs,       \* the names of the directories under harness_dir
  outdir,     \* the files of output_dir: name -> content
  analyses,   \* main's list of selected harness entries
  idx,        \* the entry analyze_repository is working on
  locals,     \* analyze_repository's local values
  cmdlog,     \* history: the external commands invoked, <<command, entry>>
  cmdFailed,  \* history: an external command was missing or exited non-zero
  existed,    \* history: entry -> its target directory existed when it began
  written,    \* history: the entries whose Analysis Record this run wrote
  outputs,    \* main's list of output files to process
  pending,    \* the pool's task queue: indices of outputs not yet taken
  running,    \* worker -> the task it is running, 0 when idle
  res,        \* task -> its result, as the pool collects them
  completed,  \* history: the tasks in the order the workers completed them
  stdout      \* the rows written to standard output

vars == <<mode, repos, pc, exitcode, fault, dirs, outdir, analyses, idx, locals,
          cmdlog, cmdFailed, existed, written, outputs, pending, running, res,
          completed, stdout>>

args == <<mode, repos>>
analyzeVars == <<analyses, idx, locals, cmdlog, cmdFailed, existed, written>>
poolVars == <<outputs, pending, running, res, completed>>

\* multiprocessing.cpu_count()
NumWorkers == 2
Workers == 1..NumWorkers

NoLocals == [hash |-> <<>>, tokei |-> <<>>, config |-> <<>>, semgrep |-> <<>>,
             runtime |-> 0]
NotYet == [exc |-> "pending", val |-> <<>>]

RepoNames == { get_org_repo(HARNESS[i][3]).val[2] : i \in 1..Len(HARNESS) }

\* The output directories main() may find: at most MaxFiles files of Catalog.
OutputDirs ==
  { [n \in N |-> Catalog[n]] :
      N \in { M \in SUBSET (DOMAIN Catalog) : Cardinality(M) <= MaxFiles } }

Init ==
  /\ mode \in {"analyze", "process"}
  /\ repos \in ArgRepos
  /\ pc = "start"
  /\ exitcode = 0
  /\ fault = "none"
  /\ dirs \in (IF mode = "analyze" THEN SUBSET RepoNames ELSE {{}})
  /\ outdir \in OutputDirs
  /\ analyses = <<>>
  /\ idx = 0
  /\ locals = NoLocals
  /\ cmdlog = <<>>
  /\ cmdFailed = FALSE
  /\ existed = <<>>
  /\ written = {}
  /\ outputs = <<>>
  /\ pending = {}
  /\ running = [w \in Workers |-> 0]
  /\ res = <<>>
  /\ completed = <<>>
  /\ stdout = <<>>

\* The process ends: sys.exit(code), return code from main(), or an
\* uncaught exception (exit code 1).
Exit(code, why) ==
  /\ pc' = "exited"
  /\ exitcode' = code
  /\ fault' = why

(***************************************************************************)
(* --analyze                                                               *)
(***************************************************************************)

Entry == analyses[idx]
Repo == get_org_repo(Entry[3]).val[2]

\* main(), lines 295-302: the list of analyses.
StartAnalyze ==
  /\ pc = "start"
  /\ mode = "analyze"
  /\ analyses' = SelectEntries(HARNESS, repos)
  /\ IF Len(analyses') = 0
       THEN Exit(EX_OK, "none") /\ idx' = idx
       ELSE pc' = "resolve" /\ idx' = 1 /\ UNCHANGED <<exitcode, fault>>
  /\ UNCHANGED <<args, dirs, outdir, locals, cmdlog, cmdFailed, existed, written,
                 poolVars, stdout>>

\* analyze_repository, lines 202-204: target_dir.resolve(strict=True) raises
\* FileNotFoundError when the target directory is not there.
Resolve ==
  /\ pc = "resolve"
  /\ existed' = Append(existed, Repo \in dirs)
  /\ IF get_org_repo(Entry[3]).exc # "none"
       THEN Exit(1, get_org_repo(Entry[3]).exc)
       ELSE IF Repo \notin dirs
         THEN Exit(1, "FileNotFoundError")
         ELSE pc' = "clone" /\ UNCHANGED <<exitcode, fault>>
  /\ UNCHANGED <<args, dirs, outdir, analyses, idx, locals, cmdlog, cmdFailed,
                 written, poolVars, stdout>>

\* One external command of analyze_repository: it is logged, and either ends
\* the run or hands its stdout on.
External(cmd, proc, next, newLocals) ==
  /\ cmdlog' = Append(cmdlog, <<cmd, idx>>)
  /\ cmdFailed' = (cmdFailed \/ ~proc.found \/ proc.returncode # EX_OK)
  /\ IF run_cmd(proc).exc # "none"
       THEN Exit(1, run_cmd(proc).exc) /\ locals' = locals
       ELSE pc' = next /\ locals' = newLocals /\ UNCHANGED <<exitcode, fault>>

\* lines 206-209: clone when the target directory does not exist.
EnsureClone ==
  /\ pc = "clone"
  /\ IF Repo \notin dirs
       THEN \E proc \in Procs(<<>>) :
              /\ External("clone", proc, "rev-parse", locals)
              /\ dirs' = IF run_cmd(proc).exc = "none" THEN dirs \cup {Repo} ELSE dirs
       ELSE /\ pc' = "rev-parse"
            /\ UNCHANGED <<exitcode, fault, dirs, locals, cmdlog, cmdFailed>>
  /\ UNCHANGED <<args, outdir, analyses, idx, existed, written, poolVars, stdout>>

\* line 211: git rev-parse HEAD
RevParse ==
  /\ pc = "rev-parse"
  /\ \E proc \in Procs(RevParseStdout) :
       External("rev-parse", proc, "tokei",
                [locals EXCEPT !.hash = Strip(run_cmd(proc).val)])
  /\ UNCHANGED <<args, dirs, outdir, analyses, idx, existed, written, poolVars, stdout>>

\* lines 214-215: tokei --output json
Tokei ==
  /\ pc = "tokei"
  /\ \E proc \in Procs(TokeiJson(Entry[1])) :
       External("tokei", proc, "which",
                [locals EXCEPT !.tokei = run_cmd(proc).val])
  /\ UNCHANGED <<args, dirs, outdir, analyses, idx, existed, written, poolVars, stdout>>

\* line 216: routes which <framework>
Which ==
  /\ pc = "which"
  /\ \E proc \in Procs(<<"r","u","l","e","s","/">> \o Entry[2] \o <<".","y","a","m","l">>) :
       External("which", proc, "touch",
                [locals EXCEPT !.config = run_cmd(proc).val])
  /\ UNCHANGED <<args, dirs, outdir, analyses, idx, existed, written, poolVars, stdout>>

\* lines 219-220: touch .semgrepignore
Touch ==
  /\ pc = "touch"
  /\ \E proc \in Procs(<<>>) : External("touch", proc, "semgrep", locals)
  /\ UNCHANGED <<args, dirs, outdir, analyses, idx, existed, written, poolVars, stdout>>

\* The running times of a scan the model draws from, in hundredths of a second.
Runtimes == {1234}

\* lines 222-230: the timed scan
Semgrep ==
  /\ pc = "semgrep"
  /\ \E proc \in Procs(SemgrepJson(Entry[2])), t \in Runtimes :
       External("semgrep", proc, "dump",
                [locals EXCEPT !.semgrep = run_cmd(proc).val, !.runtime = t])
  /\ UNCHANGED <<args, dirs, outdir, analyses, idx, existed, written, poolVars, stdout>>

\* output_file = f"{repo}.{framework}.json"
OutputFile(repo, framework) == repo \o <<".">> \o framework \o <<".","j","s","o","n">>

\* lines 232-243: the Analysis Record is written; main() goes on to the next
\* entry, or returns os.EX_OK after the last.
Dump ==
  /\ pc = "dump"
  /\ outdir' = (OutputFile(Repo, Entry[2]) :>
                  AnalysisRecord(Entry[1], Entry[2], Entry[3], locals.hash,
                                 locals.tokei, locals.semgrep, locals.runtime))
               @@ outdir
  /\ written' = written \cup {idx}
  /\ locals' = NoLocals
  /\ IF idx = Len(analyses)
       THEN Exit(EX_OK, "none") /\ idx' = idx
       ELSE pc' = "resolve" /\ idx' = idx + 1 /\ UNCHANGED <<exitcode, fault>>
  /\ UNCHANGED <<args, dirs, analyses, cmdlog, cmdFailed, existed, poolVars, stdout>>

(***************************************************************************)
(* --process                                                               *)
(***************************************************************************)

\* output_dir.glob("*.json"): the matching names, in the order the directory
\* happens to enumerate them.
Glob(dir) == Enumerations({ n \in DOMAIN dir : EndsWith(n, <<".","j","s","o","n">>) })

\* repo in output, for output a pathlib.Path: a Path is no container.
PathContains(repo, output) == Raised("TypeError")

\* lines 309-314: [output for output in outputs if any(repo in output ...)]
FilterOutputs(listing, filter) ==
  IF Len(filter) = 0 THEN Returned(listing)
  ELSE IF Len(listing) = 0 THEN Returned(<<>>)
  ELSE IF PathContains(filter[1], listing[1]).exc # "none"
    THEN Raised(PathContains(filter[1], listing[1]).exc)
  ELSE Returned(SelectSeq(listing,
                  LAMBDA o : \E i \in 1..Len(filter) : PathContains(filter[i], o).val))

\* main(), lines 306-317: the outputs are listed and filtered and the pool
\* is given one task per output.
StartProcess ==
  /\ pc = "start"
  /\ mode = "process"
  /\ \E listing \in Glob(outdir) :
       LET selected == FilterOutputs(listing, repos)
       IN  IF selected.exc # "none"
             THEN /\ Exit(1, selected.exc)
                  /\ UNCHANGED <<outputs, pending, res>>
             ELSE /\ outputs' = selected.val
                  /\ pending' = 1..Len(selected.val)
                  /\ res' = [i \in 1..Len(selected.val) |-> NotYet]
                  /\ pc' = "pool"
                  /\ UNCHANGED <<exitcode, fault>>
  /\ UNCHANGED <<args, dirs, outdir, analyzeVars, running, completed, stdout>>

\* An idle worker takes the next task of the queue.
WorkerPick(w) ==
  /\ pc = "pool"
  /\ running[w] = 0
  /\ pending # {}
  /\ LET i == CHOOSE k \in pending : \A j \in pending : k <= j
     IN  /\ running' = [running EXCEPT ![w] = i]
         /\ pending' = pending \ {i}
  /\ UNCHANGED <<args, pc, exitcode, fault, dirs, outdir, analyzeVars, outputs,
                 res, completed, stdout>>

\* Mutant of StoreResult: results are kept in the order the tasks complete.
StoreResultInCompletionOrder(results, i, r) ==
  LET free == CHOOSE k \in DOMAIN results :
                /\ results[k].exc = "pending"
                /\ \A j \in DOMAIN results : results[j].exc = "pending" => k <= j
  IN  [results EXCEPT ![free] = r]

\* pool.map collects each result at its task's position.
StoreResult(results, i, r) == [results EXCEPT ![i] = r]

\* A worker finishes process_output on its file.
WorkerFinish(w) ==
  /\ pc = "pool"
  /\ running[w] # 0
  /\ res' = StoreResult(res, running[w], process_output(outdir[outputs[running[w]]]))
  /\ running' = [running EXCEPT ![w] = 0]
  /\ completed' = Append(completed, running[w])
  /\ UNCHANGED <<args, pc, exitcode, fault, dirs, outdir, analyzeVars, outputs,
                 pending, stdout>>

\* pool.map re-raises a task's exception in main(), which does not catch it.
PoolRaise ==
  /\ pc = "pool"
  /\ \E i \in DOMAIN res :
       /\ res[i].exc \notin {"none", "pending"}
       /\ Exit(1, res[i].exc)
  /\ UNCHANGED <<args, dirs, outdir, analyzeVars, poolVars, stdout>>

\* lambda r: r[3] + r[2]
SortKey(r) == r[4] \o r[3]

\* list.sort(key=...): stable, ascending.
\* Mutant of Insert: one row per sort key, as a dict keyed on it would keep.
RECURSIVE InsertUnique(_, _)
InsertUnique(s, r) ==
  IF Len(s) = 0 THEN <<r>>
  ELSE IF SortKey(r) = SortKey(s[1]) THEN s
  ELSE IF StrLess(SortKey(r), SortKey(s[1])) THEN <<r>> \o s
  ELSE <<s[1]>> \o InsertUnique(Tail(s), r)

RECURSIVE Insert(_, _)
Insert(s, r) ==
  IF Len(s) = 0 THEN <<r>>
  ELSE IF StrLess(SortKey(r), SortKey(s[1])) THEN <<r>> \o s
  ELSE <<s[1]>> \o Insert(Tail(s), r)

RECURSIVE Sort(_)
Sort(s) ==
  IF Len(s) = 0 THEN <<>>
  ELSE Insert(Sort(SubSeq(s, 1, Len(s) - 1)), s[Len(s)])

headers ==
  << <<"R","e","p","o","s","i","t","o","r","y">>, <<"C","o","m","m","i","t"," ","h","a","s","h">>, <<"F","r","a","m","e","w","o","r","k">>, <<"L","a","n","g","u","a","g","e">>,
     <<"L","i","n","e","s"," ","o","f"," ","c","o","d","e">>, <<"S","e","m","g","r","e","p"," ","r","u","n","t","i","m","e">>, <<"R","o","u","t","e"," ","c","o","u","n","t">>,
     <<"A","u","t","h","n"," ","r","o","u","t","e"," ","c","o","u","n","t">>, <<"U","n","a","u","t","h","n"," ","r","o","u","t","e"," ","c","o","u","n","t">>, <<"A","u","t","h","z"," ","r","o","u","t","e"," ","c","o","u","n","t">>,
     <<"U","n","a","u","t","h","z"," ","r","o","u","t","e"," ","c","o","u","n","t">>, <<"R","o","l","e"," ","c","o","u","n","t">> >>

\* The rows of results up to the first one whose shape is not the header's.
RECURSIVE WellShapedPrefix(_)
WellShapedPrefix(results) ==
  IF Len(results) = 0 \/ Len(results[1]) # Len(headers) THEN <<>>
  ELSE <<results[1]>> \o WellShapedPrefix(Tail(results))

\* Mutant of Emit: each row is checked as it is written.
EmitCheckingWhileWriting(results) ==
  IF \E i \in 1..Len(results) : Len(results[i]) < 4
    THEN [exitcode |-> 1, fault |-> "IndexError", stdout |-> <<>>]
  ELSE IF \E i \in 1..Len(results) : Len(headers) # Len(results[i])
    THEN [exitcode |-> 1, fault |-> "mismatch",
          stdout |-> <<headers>> \o WellShapedPrefix(Sort(results))]
  ELSE [exitcode |-> EX_OK, fault |-> "none", stdout |-> <<headers>> \o Sort(results)]

\* main(), lines 319-346, on the list pool.map returned: the exit code, what
\* ended the run early, and the rows written to standard output.
Emit(results) ==
  IF \E i \in 1..Len(results) : Len(results[i]) < 4
    THEN [exitcode |-> 1, fault |-> "IndexError", stdout |-> <<>>]
  ELSE IF \E i \in 1..Len(results) : Len(headers) # Len(results[i])
    THEN [exitcode |-> 1, fault |-> "mismatch", stdout |-> <<>>]
  ELSE [exitcode |-> EX_OK, fault |-> "none", stdout |-> <<headers>> \o Sort(results)]

\* pool.map returns once every task has a result; main() sorts, checks the
\* shape of the rows, writes the CSV and returns.
Finish ==
  /\ pc = "pool"
  /\ \A i \in DOMAIN res : res[i].exc = "none"
  /\ LET e == Emit([i \in DOMAIN res |-> res[i].val])
     IN  /\ Exit(e.exitcode, e.fault)
         /\ stdout' = e.stdout
  /\ UNCHANGED <<args, dirs, outdir, analyzeVars, poolVars>>

Next ==
  \/ StartAnalyze
  \/ Resolve
  \/ EnsureClone
  \/ RevParse
  \/ Tokei
  \/ Which
  \/ Touch
  \/ Semgrep
  \/ Dump
  \/ StartProcess
  \/ \E w \in Workers : WorkerPick(w)
  \/ \E w \in Workers : WorkerFinish(w)
  \/ PoolRaise
  \/ Finish

Spec == Init /\ [][Next]_vars
(***************************************************************************)
(* process_output on its own: one Analysis Record whose findings are drawn *)
(* from a bounded set, processed by a --process run.                       *)
(***************************************************************************)

MaxFindings == 2

\* Rule identifiers of findings.
CheckIds ==
  { <<"f","l","a","s","k","-","r","o","u","t","e","-","g","e","t">>, <<"f","l","a","s","k","-","a","u","t","h","e","n","t","i","c","a","t","e","d","-","r","o","u","t","e">>,
    <<"f","l","a","s","k","-","u","n","a","u","t","h","o","r","i","z","e","d","-","r","o","u","t","e">>, <<"f","l","a","s","k","-","u","n","a","u","t","h","e","n","t","i","c","a","t","e","d">>, <<"f","l","a","s","k","-","a","u","d","i","t">> }

\* What a finding's extra.metavars may bind.
MetavarBindings ==
  { NoMetavars,
    ("$AUTHZ" :> Bound("admin")),
    ("$AUTHZ" :> Bound("admin")) @@ ("$...AUTHZ" :> Bound("admin")),
    ("$AUTHZ" :> Bound("user")) @@ ("$...AUTHZ" :> Bound("admin")),
    ("$...AUTHZ" :> Bound("user")),
    ("$ROUTE" :> Bound("admin")) }

\* Findings: with their metavariables, or with a check_id and nothing else.
Findings ==
  { Finding(id, mv) : id \in CheckIds, mv \in MetavarBindings }
  \cup { [check_id |-> id] : id \in CheckIds }

FindingLists == UNION { [1..n -> Findings] : n \in 0..MaxFindings }

RecordFile == <<"b",".","f","l","a","s","k",".","j","s","o","n">>

InitExtract ==
  /\ mode = "process"
  /\ repos = <<>>
  /\ pc = "start"
  /\ exitcode = 0
  /\ fault = "none"
  /\ dirs = {}
  /\ \E fs \in FindingLists :
       outdir = (RecordFile :>
                   AnalysisRecord(Python, <<"f","l","a","s","k">>, <<"h","t","t","p","s",":","/","/","g","i","t","h","u","b",".","c","o","m","/","a","/","b">>,
                                  <<"0","1","2","3","4","5","6","7","8","9","a","b","c","d","e","f">>, TokeiJson(Python),
                                  [results |-> fs], 150))
  /\ analyses = <<>>
  /\ idx = 0
  /\ locals = NoLocals
  /\ cmdlog = <<>>
  /\ cmdFailed = FALSE
  /\ existed = <<>>
  /\ written = {}
  /\ outputs = <<>>
  /\ pending = {}
  /\ running = [w \in Workers |-> 0]
  /\ res = <<>>
  /\ completed = <<>>
  /\ stdout = <<>>

NextProcess ==
  \/ StartProcess
  \/ \E w \in Workers : WorkerPick(w)
  \/ \E w \in Workers : WorkerFinish(w)
  \/ PoolRaise
  \/ Finish

SpecExtract == InitExtract /\ [][NextProcess]_vars

(***************************************************************************)
(* The CSV emitter on its own: main() from the return of pool.map on, for  *)
(* lists of rows of any shape.  (In a whole run every row comes from       *)
(* process_output and has the header's shape.)                             *)
(***************************************************************************)

MaxRows == 3

GoodRow == MetricsRow(Catalog[<<"g","o","-","b","a","s","e",".","c","h","i",".","j","s","o","n">>])

EmitRows ==
  { GoodRow,
    MetricsRow(Catalog[<<"m","a","l","l",".","s","p","r","i","n","g",".","j","s","o","n">>]),
    SubSeq(GoodRow, 1, Len(GoodRow) - 1),
    GoodRow \o << <<"e","x","t","r","a">> >>,
    SubSeq(GoodRow, 1, 3) }

InitEmit ==
  /\ mode = "process"
  /\ repos = <<>>
  /\ pc = "pool"
  /\ exitcode = 0
  /\ fault = "none"
  /\ dirs = {}
  /\ outdir = <<>>
  /\ analyses = <<>>
  /\ idx = 0
  /\ locals = NoLocals
  /\ cmdlog = <<>>
  /\ cmdFailed = FALSE
  /\ existed = <<>>
  /\ written = {}
  /\ outputs = <<>>
  /\ pending = {}
  /\ running = [w \in Workers |-> 0]
  /\ \E n \in 0..MaxRows : \E rows \in [1..n -> EmitRows] :
       res = [i \in 1..n |-> Returned(rows[i])]
  /\ completed = <<>>
  /\ stdout = <<>>

NextEmit == Finish

SpecEmit == InitEmit /\ [][NextEmit]_vars

(***************************************************************************)
(* Properties                                                              *)
(***************************************************************************)

JsonFiles(dir) == { n \in DOMAIN dir : EndsWith(n, <<".","j","s","o","n">>) }

\* The files --repos is meant to select: those whose name contains one of
\* the given strings; all of them when the option is not given.
Selected(dir, filter) ==
  IF Len(filter) = 0 THEN JsonFiles(dir)
  ELSE { n \in JsonFiles(dir) : AnyIn(filter, n) }

RowsOf(dir, listing) ==
  [i \in 1..Len(listing) |-> process_output(dir[listing[i]]).val]

DataRows == { stdout[i] : i \in 2..Len(stdout) }

\* C1: in analyze mode, an entry whose target directory does not exist is
\* cloned before its commit hash is resolved and an entry whose directory
\* exists is not cloned; and a run in which no external command fails ends
\* with the Analysis Record of every selected entry written.
C1_CloneWhenMissingThenRecord ==
  /\ \A n \in 1..Len(cmdlog) :
        cmdlog[n][1] = "rev-parse" =>
          ((~existed[cmdlog[n][2]]) <=>
             \E m \in 1..(n - 1) : cmdlog[m] = <<"clone", cmdlog[n][2]>>)
  /\ (mode = "analyze" /\ pc = "exited" /\ ~cmdFailed) =>
        written = 1..Len(analyses)

\* C2: once an external command is missing or exits non-zero the run is over
\* with a non-zero exit code: the failing step writes no Analysis Record, and
\* from then on no command is invoked and no file of the output directory
\* is written or changed.
C2_FailedCommandEndsRun ==
  [][ /\ (cmdFailed' /\ ~cmdFailed) =>
           (pc' = "exited" /\ exitcode' # EX_OK /\ outdir' = outdir
            /\ written' = written)
      /\ cmdFailed =>
           (pc = "exited" /\ exitcode # EX_OK /\ cmdlog' = cmdlog
            /\ outdir' = outdir /\ written' = written /\ pc' = pc) ]_vars

\* C2 witness: a command of a later entry failed after an earlier entry's
\* record was written, with entries still to come.
C2_Witness ==
  /\ cmdFailed
  /\ pc = "exited"
  /\ written # {}
  /\ idx < Len(analyses)
  /\ cmdlog[Len(cmdlog)][1] = "semgrep"

\* C3: a process run with a non-empty --repos completes, and its data rows
\* are exactly the rows of the *.json files whose name contains one of the
\* given strings.
C3_ReposSelectsByFilename ==
  (mode = "process" /\ Len(repos) > 0 /\ pc = "exited") =>
     /\ exitcode = EX_OK
     /\ Len(stdout) = 1 + Cardinality(Selected(outdir, repos))
     /\ DataRows = { process_output(outdir[n]).val : n \in Selected(outdir, repos) }

\* C4: if a row handed to the emitter has a field count other than 12, the
\* run ends with a non-zero exit status and nothing, neither header nor row,
\* has been written to standard output.
C4_MismatchWritesNothing ==
  (pc = "exited" /\ \E i \in DOMAIN res : Len(res[i].val) # 12) =>
     (exitcode # EX_OK /\ stdout = <<>>)

\* C4 witness: a list of well-shaped rows and one of 13 fields was rejected.
C4_Witness ==
  /\ pc = "exited"
  /\ fault = "mismatch"
  /\ \E i \in DOMAIN res : Len(res[i].val) = 13
  /\ \E i \in DOMAIN res : Len(res[i].val) = 12

\* C5: every row process_output returns has 12 fields, as many as the
\* header; and a process run that writes CSV writes one data row per
\* selected Analysis Record file, each file's row once.
C5_OneRowPerRecord ==
  /\ Len(headers) = 12
  /\ \A i \in DOMAIN res : res[i].exc = "none" => Len(res[i].val) = 12
  /\ (mode = "process" /\ pc = "exited" /\ stdout # <<>>) =>
        /\ Len(stdout) - 1 = Cardinality(Selected(outdir, repos))
        /\ \E e \in Enumerations(Selected(outdir, repos)) :
              \A k \in 1..(Len(stdout) - 1) :
                 stdout[k + 1] = process_output(outdir[e[k]]).val

\* C5 witness: three files were processed, two of them with the same
\* language and framework, and three rows written.
C5_Witness ==
  /\ mode = "process"
  /\ pc = "exited"
  /\ Cardinality(JsonFiles(outdir)) = 3
  /\ Len(stdout) = 4
  /\ SortKey(stdout[3]) = SortKey(stdout[4])

\* C6: any two consecutive data rows r1, r2 are in (language, framework)
\* order: language(r1) < language(r2), or the languages are equal and
\* framework(r1) <= framework(r2).
C6_SortedByLanguageThenFramework ==
  \A i \in 2..(Len(stdout) - 1) :
     \/ StrLess(stdout[i][4], stdout[i + 1][4])
     \/ /\ stdout[i][4] = stdout[i + 1][4]
        /\ ~StrLess(stdout[i + 1][3], stdout[i][3])

\* The record SpecExtract processes, and what became of it.
TheFindings == outdir[RecordFile].semgrep.results
Processed == 1 \in DOMAIN res /\ res[1].exc # "pending"
Marked(marker) ==
  Cardinality({ i \in 1..Len(TheFindings) : Contains(marker, TheFindings[i].check_id) })
CarriesMetavars(f) == Has(f, "extra") /\ Has(f.extra, "metavars")

\* The five counts of the row are the numbers of findings whose check_id
\* contains the respective marker, each between 0 and the number of
\* findings; with no finding the five counts and the role count are 0.
CountsAreMarkerCounts ==
  LET row == res[1].val
  IN  /\ row[7] = Str(Marked(<<"-","r","o","u","t","e">>))
      /\ row[8] = Str(Marked(<<"-","a","u","t","h","e","n","t","i","c","a","t","e","d">>))
      /\ row[9] = Str(Marked(<<"-","u","n","a","u","t","h","e","n","t","i","c","a","t","e","d">>))
      /\ row[10] = Str(Marked(<<"-","a","u","t","h","o","r","i","z","e","d">>))
      /\ row[11] = Str(Marked(<<"-","u","n","a","u","t","h","o","r","i","z","e","d">>))
      /\ \A c \in 7..11 : row[c] \in { Str(k) : k \in 0..Len(TheFindings) }
      /\ Len(TheFindings) = 0 => \A c \in 7..12 : row[c] = <<"0">>

\* C7, as stated: process_output succeeds on every Analysis Record, also one
\* whose findings carry a check_id and nothing else, and its five counts are
\* the marker counts.
C7_CountsForEveryRecord ==
  Processed => (res[1].exc = "none" /\ CountsAreMarkerCounts)

\* C7, amended: process_output succeeds on every Analysis Record whose
\* findings each carry extra.metavars (which may bind nothing), and its five
\* counts are the marker counts; a finding without extra.metavars makes it
\* raise KeyError.
C7_CountsWhenMetavarsPresent ==
  Processed =>
     IF \A i \in 1..Len(TheFindings) : CarriesMetavars(TheFindings[i])
       THEN res[1].exc = "none" /\ CountsAreMarkerCounts
       ELSE res[1].exc = "KeyError"

\* C7 witness: two findings that bind no metavariable, both routes, one of
\* them authenticated, were counted.
C7_Witness ==
  /\ Processed
  /\ res[1].exc = "none"
  /\ Len(TheFindings) = 2
  /\ \A i \in 1..2 : DOMAIN TheFindings[i].extra.metavars = {}
  /\ res[1].val[7] = <<"2">>
  /\ res[1].val[8] = <<"1">>

\* The literals bound to $AUTHZ or $...AUTHZ in the findings of the record.
RoleLiterals ==
  UNION { { TheFindings[i].extra.metavars[m].abstract_content :
              m \in (DOMAIN TheFindings[i].extra.metavars) \cap {"$AUTHZ", "$...AUTHZ"} } :
          i \in 1..Len(TheFindings) }

\* C8: the role count is the number of distinct literals bound to $AUTHZ or
\* $...AUTHZ over all findings of the record.
C8_RoleCountIsDistinctLiterals ==
  (1 \in DOMAIN res /\ res[1].exc = "none") =>
     res[1].val[12] = Str(Cardinality(RoleLiterals))

\* C8 witness: one finding binds the same literal to both variables, another
\* binds it again, and the role count is 1.
C8_Witness ==
  /\ 1 \in DOMAIN res
  /\ res[1].exc = "none"
  /\ Len(TheFindings) = 2
  /\ DOMAIN TheFindings[1].extra.metavars = {"$AUTHZ", "$...AUTHZ"}
  /\ TheFindings[1].extra.metavars["$AUTHZ"] = TheFindings[1].extra.metavars["$...AUTHZ"]
  /\ DOMAIN TheFindings[2].extra.metavars = {"$AUTHZ"}
  /\ TheFindings[2].extra.metavars["$AUTHZ"] = TheFindings[1].extra.metavars["$AUTHZ"]
  /\ res[1].val[12] = <<"1">>

\* Every field process_output reads is there.
HasExpectedFields(data) ==
  /\ {"language", "framework", "repository", "hash", "tokei", "semgrep", "runtime"}
       \subseteq DOMAIN data
  /\ \A i \in 1..Len(Languages(data)) :
        /\ Languages(data)[i] \in DOMAIN data.tokei
        /\ {"blanks", "code", "comments"} \subseteq DOMAIN data.tokei[Languages(data)[i]]
  /\ "results" \in DOMAIN data.semgrep
  /\ \A i \in 1..Len(data.semgrep.results) :
        /\ {"check_id", "extra"} \subseteq DOMAIN data.semgrep.results[i]
        /\ "metavars" \in DOMAIN data.semgrep.results[i].extra
        /\ \A m \in (DOMAIN data.semgrep.results[i].extra.metavars)
                      \cap {"$AUTHZ", "$...AUTHZ"} :
              "abstract_content" \in DOMAIN data.semgrep.results[i].extra.metavars[m]

\* C9: a selected Analysis Record that lacks an expected field gets no row
\* (no default is substituted), and the run that processed it ends with a
\* non-zero exit code and nothing written to standard output.
C9_MissingFieldAbortsBatch ==
  /\ \A i \in 1..Len(outputs) :
        ~HasExpectedFields(outdir[outputs[i]]) => res[i].exc \in {"pending", "KeyError"}
  /\ (mode = "process" /\ pc = "exited"
      /\ \E i \in 1..Len(outputs) : ~HasExpectedFields(outdir[outputs[i]])) =>
        (exitcode # EX_OK /\ stdout = <<>>)

\* C9 witness: the batch was aborted by a record without its hash after
\* another, well-formed record had been processed.
C9_Witness ==
  /\ mode = "process"
  /\ pc = "exited"
  /\ fault = "KeyError"
  /\ \E i \in 1..Len(outputs) : ~HasExpectedFields(outdir[outputs[i]])
  /\ \E i \in 1..Len(outputs) : res[i].exc = "none"

\* One enumeration of the directory, the same for every run on it.
ReferenceListing(dir) == CHOOSE e \in Glob(dir) : TRUE

\* C10, as stated: the rows written are the same for every order in which
\* the directory enumerates the files, so they are the rows written for one
\* fixed enumeration of it.
C10_SameRowsForEveryEnumeration ==
  (mode = "process" /\ pc = "exited" /\ exitcode = EX_OK /\ Len(repos) = 0) =>
     stdout = Emit(RowsOf(outdir, ReferenceListing(outdir))).stdout

\* C10, amended: the rows written are determined by the files and the order
\* the directory enumerated them in, whatever the workers' schedule: they
\* are the files' rows in ascending order of language + framework, rows with
\* equal keys in enumeration order.
C10_RowsDependOnListingOnly ==
  (mode = "process" /\ pc = "exited" /\ exitcode = EX_OK) =>
     LET rows == RowsOf(outdir, outputs)
         n == Len(outputs)
     IN  /\ Len(stdout) = n + 1
         /\ \E p \in Enumerations(1..n) :
               /\ \A k \in 1..n : stdout[k + 1] = rows[p[k]]
               /\ \A k, l \in 1..n :
                     k < l =>
                       \/ StrLess(SortKey(rows[p[k]]), SortKey(rows[p[l]]))
                       \/ /\ SortKey(rows[p[k]]) = SortKey(rows[p[l]])
                          /\ p[k] < p[l]

\* C10 witness: the second task completed before the first, and their rows,
\* of equal key, were written.
C10_Witness ==
  /\ completed = <<2, 1>>
  /\ mode = "process"
  /\ pc = "exited"
  /\ exitcode = EX_OK
  /\ Len(stdout) = 3
  /\ SortKey(stdout[2]) = SortKey(stdout[3])
  /\ stdout[2] # stdout[3]

====
